---- MODULE Spec2Model ----
(***************************************************************************)
(* Model of setup.py, the setup runner of the Facebook Pages dbt project.  *)
(*                                                                         *)
(* main() runs six steps in straight-line order, counts the steps that     *)
(* succeeded and prints a summary.  Text is modelled as a sequence of      *)
(* chunks (a chunk is a piece of text that is never split further: the     *)
(* marker 'path:', the extension '.duckdb', one quote character, one       *)
(* whitespace character, one newline), so that `in`, split and strip are   *)
(* computed on the text as the code computes them.  print() is taken to    *)
(* succeed: only the calls that touch the file system or start a process   *)
(* can raise.                                                              *)
(***************************************************************************)
EXTENDS Integers, Sequences, FiniteSets, TLC

VARIABLES
    pc,             \* number of the step main() is about to run; total_steps + 1 = the summary
    success_count,  \* success_count of main()
    attempted,      \* the steps whose banner was printed, in order
    results,        \* the value each attempted step returned to main(), in order
    io,             \* what the environment supplied to the last step, and the path it tested
    out,            \* what the last step printed: its status line and the captured streams
    summary,        \* the final summary printed (empty until it is printed)
    exit_status     \* "running", "0" (main returned) or "1" (uncaught exception)

vars == <<pc, success_count, attempted, results, io, out, summary, exit_status>>

(***************************************************************************)
(* Bounds of the model                                                     *)
(***************************************************************************)
MaxOutLen == 3          \* chunks of a captured standard output
MaxRunProfileLen == 2   \* chunks of profiles.yml in a whole run of main()
MaxProfileLen == 6      \* chunks of profiles.yml when check_database_file is explored alone

(***************************************************************************)
(* Program constants                                                       *)
(***************************************************************************)
total_steps == 6
MinVersion == <<3, 8>>
DefaultDb == <<"facebook_pages_pipeline", ".duckdb">>
Marker == "path:"
Ext == ".duckdb"
Newline == "\n"
QuoteChars == {"'", "\""}
WhitespaceChars == {" "}
Phrase == <<"All checks passed", "!">>

SeqsUpTo(S, n) == UNION {[1..k -> S] : k \in 0..n}

(***************************************************************************)
(* Inputs                                                                  *)
(***************************************************************************)
Versions == {<<3, 6>>, <<3, 7>>, <<3, 8>>, <<3, 11>>, <<4, 0>>}
ReturnCodes == {-9, 0, 1, 127}
OutChunks == {"All checks passed", "!", "x"}
Stdouts == SeqsUpTo(OutChunks, MaxOutLen)
Stderrs == {<<>>, <<"x">>}
ProfileChunks == {Marker, Ext, Newline, " "} \cup QuoteChars
Profiles(n) == SeqsUpTo(ProfileChunks, n)

\* What run_command's commands print on their standard output, which it never reads
CommandStdouts == {<<>>, <<"x">>, Phrase}

\* What subprocess.run gives back: it raises (exc) or returns a completed
\* process whose standard output is one of stdouts.
Completed(stdouts) == [exc : {"none"}, rc : ReturnCodes, stdout : stdouts, stderr : Stderrs]
Raised == [exc : {"notfound", "other"}, rc : {0}, stdout : {<<>>}, stderr : {<<>>}]
ProcResults(stdouts) == Completed(stdouts) \cup Raised

\* The files on disk: whether the default database exists, whether the other paths do.
FileSystems == [default : BOOLEAN, other : BOOLEAN]

NoIo ==
    [step |-> 0, version |-> <<0, 0>>, exc |-> "none", rc |-> 0, stdout |-> <<>>,
     stderr |-> <<>>, probe |-> "absent", read |-> "none", content |-> <<>>,
     db_file |-> <<>>, fs |-> [default |-> FALSE, other |-> FALSE]]
NoOut == [msg |-> "", streams |-> <<>>]


(***************************************************************************)
(* Text operations, computed on chunks as Python computes them on text     *)
(***************************************************************************)
\* `needle in text` for a needle of one chunk
In(chunk, text) == \E i \in 1..Len(text) : text[i] = chunk

\* `phrase in text` for a phrase of several chunks
Contains(text, phrase) ==
    \E i \in 1..(Len(text) - Len(phrase) + 1) :
        SubSeq(text, i, i + Len(phrase) - 1) = phrase

\* index of the first occurrence of chunk in text, Len(text) + 1 when there is none
RECURSIVE Find(_, _, _)
Find(text, chunk, i) ==
    IF i > Len(text) THEN i
    ELSE IF text[i] = chunk THEN i
    ELSE Find(text, chunk, i + 1)

\* text.split(sep): the pieces between the occurrences of sep
RECURSIVE Split(_, _)
Split(text, sep) ==
    LET i == Find(text, sep, 1)
    IN  IF i > Len(text) THEN <<text>>
        ELSE <<SubSeq(text, 1, i - 1)>> \o Split(SubSeq(text, i + 1, Len(text)), sep)

RECURSIVE LStrip(_, _)
LStrip(text, chars) ==
    IF text # <<>> /\ Head(text) \in chars THEN LStrip(Tail(text), chars) ELSE text

RECURSIVE RStrip(_, _)
RStrip(text, chars) ==
    IF text # <<>> /\ text[Len(text)] \in chars
    THEN RStrip(SubSeq(text, 1, Len(text) - 1), chars)
    ELSE text

\* text.strip(chars)
Strip(text, chars) == RStrip(LStrip(text, chars), chars)

(***************************************************************************)
(* Step 1: the interpreter version                                         *)
(***************************************************************************)
\* python_version >= (3, 8), the comparison of tuples
VersionOk(v) ==
    \/ v[1] > MinVersion[1]
    \/ v[1] = MinVersion[1] /\ v[2] >= MinVersion[2]

(***************************************************************************)
(* run_command: steps 2, 3 and 6                                           *)
(***************************************************************************)
\* run_command with a handler that reports the error and returns True
run_command_ErrorIsSuccess(res) ==
    IF res.exc # "none" THEN [ok |-> TRUE, msg |-> "error", streams |-> <<>>]
    ELSE IF res.rc = 0 THEN [ok |-> TRUE, msg |-> "completed", streams |-> <<>>]
    ELSE [ok |-> FALSE, msg |-> "failed", streams |-> <<res.stderr>>]

\* run_command that takes a silent standard error for success
run_command_ByStderr(res) ==
    IF res.exc # "none" THEN [ok |-> FALSE, msg |-> "error", streams |-> <<>>]
    ELSE IF res.stderr = <<>> THEN [ok |-> TRUE, msg |-> "completed", streams |-> <<>>]
    ELSE [ok |-> FALSE, msg |-> "failed", streams |-> <<res.stderr>>]

run_command(res) ==
    IF res.exc # "none" THEN [ok |-> FALSE, msg |-> "error", streams |-> <<>>]
    ELSE IF res.rc = 0 THEN [ok |-> TRUE, msg |-> "completed", streams |-> <<>>]
    ELSE [ok |-> FALSE, msg |-> "failed", streams |-> <<res.stderr>>]

(***************************************************************************)
(* check_database_file: step 4                                             *)
(***************************************************************************)
\* the test of one line without the test of the extension
LineMatches_MarkerOnly(line) == In(Marker, line)

\* the test of one line of the profile
LineMatches(line) == In(Marker, line) /\ In(Ext, line)

\* line.split('path:')[1].strip().strip("'\"")
ExtractPath(line) ==
    Strip(Strip(Split(line, Marker)[2], WhitespaceChars), QuoteChars)

\* the for loop over the lines, left at the first line that matches
RECURSIVE ScanLines(_, _, _)
ScanLines(lines, i, db_file) ==
    IF i > Len(lines) THEN db_file
    ELSE IF LineMatches(lines[i]) THEN ExtractPath(lines[i])
    ELSE ScanLines(lines, i + 1, db_file)

\* The path whose existence is tested.  env.probe is the outcome of
\* profiles_file.exists() ("present" or "absent" here), env.read the outcome of
\* open() and read() ("ok" or "error"), env.content the text that was read.
ResolveDbFile(env) ==
    IF env.probe = "present"
    THEN IF env.read = "error" THEN DefaultDb
         ELSE IF In(Marker, env.content)
              THEN ScanLines(Split(env.content, Newline), 1, DefaultDb)
              ELSE DefaultDb
    ELSE DefaultDb

\* os.path.exists(path) on the files of fs; the empty path never exists
ExistsOnDisk(path, fs) ==
    IF path = DefaultDb THEN fs.default
    ELSE IF path = <<>> THEN FALSE
    ELSE fs.other

check_database_file(env) ==
    LET db_file == ResolveDbFile(env)
    IN  IF ExistsOnDisk(db_file, env.fs)
        THEN [ok |-> TRUE, msg |-> "found", streams |-> <<db_file>>]
        ELSE [ok |-> FALSE, msg |-> "not found", streams |-> <<db_file>>]

(***************************************************************************)
(* check_dbt_connection: step 5                                            *)
(***************************************************************************)
\* check_dbt_connection that trusts the exit code instead of the output
check_dbt_connection_ByExitCode(res) ==
    IF res.exc = "notfound" THEN [ok |-> FALSE, msg |-> "dbt not found", streams |-> <<>>]
    ELSE IF res.exc # "none" THEN [ok |-> FALSE, msg |-> "error", streams |-> <<>>]
    ELSE IF res.rc = 0
         THEN [ok |-> TRUE, msg |-> "passed", streams |-> <<>>]
         ELSE [ok |-> FALSE, msg |-> "failed", streams |-> <<res.stdout, res.stderr>>]

check_dbt_connection(res) ==
    IF res.exc = "notfound" THEN [ok |-> FALSE, msg |-> "dbt not found", streams |-> <<>>]
    ELSE IF res.exc # "none" THEN [ok |-> FALSE, msg |-> "error", streams |-> <<>>]
    ELSE IF Contains(res.stdout, Phrase)
         THEN [ok |-> TRUE, msg |-> "passed", streams |-> <<>>]
         ELSE [ok |-> FALSE, msg |-> "failed", streams |-> <<res.stdout, res.stderr>>]

(***************************************************************************)
(* main                                                                    *)
(***************************************************************************)
\* a counter that counts every step
Bump_Always(count, ok) == count + 1

\* a counter that takes a failed step back
Bump_Penalise(count, ok) == IF ok THEN count + 1 ELSE count - 1

\* `if <step succeeded>: success_count += 1`
Bump(count, ok) == IF ok THEN count + 1 ELSE count

\* a runner that goes to the summary at the first failed step
NextPc_StopOnFailure(step, ok) == IF ok THEN step + 1 ELSE total_steps + 1

\* Both branches of a step's `if` fall through to the banner of the next step.
NextPc(step, ok) == step + 1

\* a summary whose root causes are printed up to 4 successes
SummaryLines_UpTo4(count) ==
    [count |-> count,
     sections |->
        IF count = total_steps THEN {"celebrate", "next steps"}
        ELSE IF count <= 4 THEN {"warning", "critical"}
        ELSE {"warning"},
     warnings |-> IF count = total_steps THEN 0 ELSE total_steps - count]

\* The lines printed after the six steps.
SummaryLines(count) ==
    [count |-> count,
     sections |->
        IF count = total_steps THEN {"celebrate", "next steps"}
        ELSE IF count < 4 THEN {"warning", "critical"}
        ELSE {"warning"},
     warnings |-> IF count = total_steps THEN 0 ELSE total_steps - count]

Running == exit_status = "running"

\* A step that returned r to main(): the banner, the check, the counter.
Return(step, r, ioRec) ==
    /\ attempted' = Append(attempted, step)
    /\ results' = Append(results, r.ok)
    /\ success_count' = Bump(success_count, r.ok)
    /\ pc' = NextPc(step, r.ok)
    /\ io' = ioRec
    /\ out' = [msg |-> r.msg, streams |-> r.streams]
    /\ UNCHANGED <<summary, exit_status>>

\* A step whose check raised an exception that nothing catches: main() is left.
Abort(step, ioRec) ==
    /\ attempted' = Append(attempted, step)
    /\ io' = ioRec
    /\ out' = [msg |-> "traceback", streams |-> <<>>]
    /\ exit_status' = "1"
    /\ UNCHANGED <<pc, success_count, results, summary>>

Step1 ==
    /\ Running /\ pc = 1
    /\ \E v \in Versions :
        Return(1,
               IF VersionOk(v)
               THEN [ok |-> TRUE, msg |-> "compatible", streams |-> <<>>]
               ELSE [ok |-> FALSE, msg |-> "3.8+ required", streams |-> <<>>],
               [NoIo EXCEPT !.step = 1, !.version = v])

CommandStep(step) ==
    /\ Running /\ pc = step
    /\ \E res \in ProcResults(CommandStdouts) :
        Return(step, run_command(res),
               [NoIo EXCEPT !.step = step, !.exc = res.exc, !.rc = res.rc,
                            !.stdout = res.stdout, !.stderr = res.stderr])

Step2 == CommandStep(2)

Step3 == CommandStep(3)

\* Step 4 on the profiles of at most n chunks.  profiles_file.exists() stands
\* outside the try: when it raises (the directory .dbt cannot be searched),
\* the exception leaves check_database_file and main().
DatabaseStep(n) ==
    /\ Running /\ pc = 4
    /\ \E fs \in FileSystems :
        \/ Abort(4, [NoIo EXCEPT !.step = 4, !.exc = "other", !.probe = "error", !.fs = fs])
        \/ LET env == [NoIo EXCEPT !.step = 4, !.probe = "absent", !.fs = fs]
           IN  Return(4, check_database_file(env),
                      [env EXCEPT !.db_file = ResolveDbFile(env)])
        \/ LET env == [NoIo EXCEPT !.step = 4, !.probe = "present", !.read = "error",
                                   !.exc = "other", !.fs = fs]
           IN  Return(4, check_database_file(env),
                      [env EXCEPT !.db_file = ResolveDbFile(env)])
        \/ \E content \in Profiles(n) :
            LET env == [NoIo EXCEPT !.step = 4, !.probe = "present", !.read = "ok",
                                    !.content = content, !.fs = fs]
            IN  Return(4, check_database_file(env),
                       [env EXCEPT !.db_file = ResolveDbFile(env)])

Step4 == DatabaseStep(MaxRunProfileLen)

Step5 ==
    /\ Running /\ pc = 5
    /\ \E res \in ProcResults(Stdouts) :
        Return(5, check_dbt_connection(res),
               [NoIo EXCEPT !.step = 5, !.exc = res.exc, !.rc = res.rc,
                            !.stdout = res.stdout, !.stderr = res.stderr])

Step6 == CommandStep(6)

Summary ==
    /\ Running /\ pc = total_steps + 1
    /\ summary' = <<SummaryLines(success_count)>>
    /\ exit_status' = "0"
    /\ UNCHANGED <<pc, success_count, attempted, results, io, out>>

Init ==
    /\ pc = 1
    /\ success_count = 0
    /\ attempted = <<>>
    /\ results = <<>>
    /\ io = NoIo
    /\ out = NoOut
    /\ summary = <<>>
    /\ exit_status = "running"

Next == Step1 \/ Step2 \/ Step3 \/ Step4 \/ Step5 \/ Step6 \/ Summary

Spec == Init /\ [][Next]_vars

\* check_database_file alone, entered from the states main() can be in when it
\* reaches step 4, on every profile of at most MaxProfileLen chunks.
Step4Db == DatabaseStep(MaxProfileLen)

InitDb ==
    /\ pc = 4
    /\ \E ok \in BOOLEAN :
        /\ results = <<ok, ok, ok>>
        /\ success_count = IF ok THEN 3 ELSE 0
        /\ io = [NoIo EXCEPT !.step = 3, !.rc = IF ok THEN 0 ELSE 1]
        /\ out = [msg |-> IF ok THEN "completed" ELSE "failed",
                  streams |-> IF ok THEN <<>> ELSE << <<>> >>]
    /\ attempted = <<1, 2, 3>>
    /\ summary = <<>>
    /\ exit_status = "running"

NextDb == Step4Db

SpecDb == InitDb /\ [][NextDb]_vars


(***************************************************************************)
(* Properties                                                              *)
(***************************************************************************)
NumTrue(rs) == Cardinality({i \in 1..Len(rs) : rs[i]})

\* The last step that ran is step k and it returned to main().
Returned(k) == io.step = k /\ Len(results) >= k

C2_PrintedCount ==
    summary # <<>> =>
        /\ Len(results) = total_steps
        /\ summary[1].count = NumTrue(results)

\* C2 witness: a summary after three successes and three failures.
C2_Witness ==
    /\ summary # <<>>
    /\ results = <<TRUE, FALSE, TRUE, FALSE, TRUE, FALSE>>
    /\ summary[1].count = 3

\* C3: every run that ends has printed the summary and ends with exit status 0.
C3_AlwaysExitsZero ==
    ~Running => (exit_status = "0" /\ summary # <<>>)

\* An exception was raised during the last step that ran.
RaisedInStep == io.step >= 1 /\ io.exc # "none"

NoLineWithBoth(text) ==
    ~ \E i, j \in 1..Len(text) :
        /\ text[i] = Marker
        /\ text[j] = Ext
        /\ \A k \in 1..Len(text) :
            ((i <= k /\ k <= j) \/ (j <= k /\ k <= i)) => text[k] # Newline

\* The cases of C5: no profiles.yml, one that cannot be read, one without a
\* line that holds both the marker and the extension.
FallbackCase ==
    /\ io.step = 4
    /\ \/ io.probe = "absent"
       \/ io.probe = "present" /\ io.read = "error"
       \/ io.probe = "present" /\ io.read = "ok" /\ NoLineWithBoth(io.content)

AfterMarker(line) == SubSeq(line, Find(line, Marker, 1) + 1, Len(line))

\* The first line of the text that holds both the marker and the extension.
FirstLineWithBoth(text) ==
    LET lines == Split(text, Newline)
        first == CHOOSE i \in 1..Len(lines) :
                    /\ In(Marker, lines[i]) /\ In(Ext, lines[i])
                    /\ \A h \in 1..(i - 1) : ~(In(Marker, lines[h]) /\ In(Ext, lines[h]))
    IN  lines[first]

\* C6: when a line of the profile holds both the marker and the extension, the
\* path tested is the text of the first such line after the marker, trimmed of
\* the whitespace and the quote characters around it.
C6_PathAfterMarker ==
    (io.step = 4 /\ io.probe = "present" /\ io.read = "ok"
        /\ ~NoLineWithBoth(io.content)) =>
        io.db_file =
            Strip(Strip(AfterMarker(FirstLineWithBoth(io.content)), WhitespaceChars),
                  QuoteChars)

\* The success phrase stands in the captured standard output.
PhraseIn(text) ==
    \E i \in 1..Len(text) :
        i < Len(text) /\ text[i] = "All checks passed" /\ text[i + 1] = "!"

\* C7: step 5 succeeds exactly when the captured standard output holds the
\* success phrase, whatever the exit code; without the phrase it fails and
\* prints both captured streams; a missing dbt fails with the not-found
\* message, not with the failed-check message.
C7_ConnectionByPhrase ==
    Returned(5) =>
        /\ io.exc = "none" =>
            /\ results[5] <=> PhraseIn(io.stdout)
            /\ results[5] => out.msg = "passed"
            /\ ~results[5] =>
                (out.msg = "failed" /\ out.streams = <<io.stdout, io.stderr>>)
        /\ io.exc = "notfound" =>
            (~results[5] /\ out.msg = "dbt not found" /\ out.streams = <<>>)

\* C7 witness: dbt debug ended with a non-zero exit code, its output held the
\* phrase, and step 5 succeeded.
C7_Witness ==
    /\ Returned(5)
    /\ io.exc = "none"
    /\ io.rc # 0
    /\ PhraseIn(io.stdout)
    /\ results[5]

\* C8: the summary prints the celebratory branch with the next steps exactly
\* when all 6 steps succeeded, otherwise the warning branch with 6 - n
\* warnings; the root causes are printed exactly when n < 4.
C8_SummaryBranches ==
    summary # <<>> =>
        LET n == summary[1].count
            sections == summary[1].sections
        IN  /\ n \in 0..6
            /\ "celebrate" \in sections <=> n = 6
            /\ "next steps" \in sections <=> n = 6
            /\ "warning" \in sections <=> n # 6
            /\ "warning" \in sections => summary[1].warnings = 6 - n
            /\ "critical" \in sections <=> n < 4

\* C8 witness: a summary of 4 successes, a warning without the root causes.
C8_Witness ==
    /\ summary # <<>>
    /\ summary[1].count = 4
    /\ summary[1].sections = {"warning"}
    /\ summary[1].warnings = 2

\* C9: a run_command step whose command returned succeeds exactly when the
\* exit code is 0; on another exit code it fails and prints the captured
\* standard error; the captured standard output is neither read nor printed.
C9_CommandByExitCode ==
    (io.step \in {2, 3, 6} /\ Len(results) >= io.step /\ io.exc = "none") =>
        /\ results[io.step] <=> io.rc = 0
        /\ io.rc = 0 => (out.msg = "completed" /\ out.streams = <<>>)
        /\ io.rc # 0 => (out.msg = "failed" /\ out.streams = <<io.stderr>>)

\* C9 witness: a command that printed the success phrase and nothing on the
\* standard error, ended with a non-zero exit code, and failed its step.
C9_Witness ==
    /\ Returned(6)
    /\ io.exc = "none"
    /\ io.rc # 0
    /\ PhraseIn(io.stdout)
    /\ io.stderr = <<>>
    /\ ~results[6]

\* C10: the counter stays between 0 and the 6 steps and never exceeds the
\* number of steps attempted; it never decreases and a step changes it by at
\* most 1.
C10_CounterBounds ==
    /\ [](/\ 0 <= success_count
          /\ success_count <= total_steps
          /\ success_count <= Len(attempted))
    /\ [][/\ success_count' >= success_count
          /\ success_count' <= success_count + 1
          /\ success_count' # success_count => Len(attempted') = Len(attempted) + 1]_vars

\* C10 witness: the counter reached the 6 steps.
C10_Witness ==
    /\ success_count = total_steps
    /\ Len(attempted) = total_steps

====
